---- MODULE Spec2Model ----
(***************************************************************************)
(* Mergington High School API (src/src/app.py): the in-memory activity     *)
(* roster with its signup / unregister handlers, and the SQLite-backed     *)
(* testimonials table with its list / submit / toggle handlers.            *)
(***************************************************************************)
EXTENDS Integers, Sequences, FiniteSets, TLC

(* ------------------------------ bounds --------------------------------- *)

\* requests running in parallel are taken for lists shorter than this
MaxRoster == 4

\* at most this many rows are ever inserted into the testimonials table
MaxTestimonials == 2

(* --------------------------- request inputs ---------------------------- *)

\* activity names a request may carry: two seeded ones and an unknown one
ActivityNames == {"Chess Club", "Programming Class", "Knitting Club"}

\* emails a request may carry: one seeded in Chess Club, one new
Emails == {"michael@mergington.edu", "zoe@mergington.edu"}

Authors == {"Jane"}

Texts == {"Great club!"}

\* testimonial ids a request may carry (the last one is never assigned)
TestimonialIds == 1..(MaxTestimonials + 1)

\* readings of datetime.utcnow(), a second and a microsecond; the wall clock
\* is not monotonic and two readings can agree
Times ==
  {[second |-> 0, microsecond |-> 0],
   [second |-> 0, microsecond |-> 1],
   [second |-> 1, microsecond |-> 0]}

(* ----------------------------- the roster ------------------------------ *)

\* the module-level dict literal
SeedActivities ==
  [a \in {"Chess Club", "Programming Class", "Gym Class", "Soccer Team",
          "Basketball Team", "Art Club", "Drama Club", "Math Club",
          "Debate Team"} |->
    CASE a = "Chess Club" ->
           [description |-> "Learn strategies and compete in chess tournaments",
            schedule |-> "Fridays, 3:30 PM - 5:00 PM",
            max_participants |-> 12,
            participants |-> <<"michael@mergington.edu", "daniel@mergington.edu">>]
      [] a = "Programming Class" ->
           [description |-> "Learn programming fundamentals and build software projects",
            schedule |-> "Tuesdays and Thursdays, 3:30 PM - 4:30 PM",
            max_participants |-> 20,
            participants |-> <<"emma@mergington.edu", "sophia@mergington.edu">>]
      [] a = "Gym Class" ->
           [description |-> "Physical education and sports activities",
            schedule |-> "Mondays, Wednesdays, Fridays, 2:00 PM - 3:00 PM",
            max_participants |-> 30,
            participants |-> <<"john@mergington.edu", "olivia@mergington.edu">>]
      [] a = "Soccer Team" ->
           [description |-> "Join the school soccer team and compete in matches",
            schedule |-> "Tuesdays and Thursdays, 4:00 PM - 5:30 PM",
            max_participants |-> 22,
            participants |-> <<"liam@mergington.edu", "noah@mergington.edu">>]
      [] a = "Basketball Team" ->
           [description |-> "Practice and play basketball with the school team",
            schedule |-> "Wednesdays and Fridays, 3:30 PM - 5:00 PM",
            max_participants |-> 15,
            participants |-> <<"ava@mergington.edu", "mia@mergington.edu">>]
      [] a = "Art Club" ->
           [description |-> "Explore your creativity through painting and drawing",
            schedule |-> "Thursdays, 3:30 PM - 5:00 PM",
            max_participants |-> 15,
            participants |-> <<"amelia@mergington.edu", "harper@mergington.edu">>]
      [] a = "Drama Club" ->
           [description |-> "Act, direct, and produce plays and performances",
            schedule |-> "Mondays and Wednesdays, 4:00 PM - 5:30 PM",
            max_participants |-> 20,
            participants |-> <<"ella@mergington.edu", "scarlett@mergington.edu">>]
      [] a = "Math Club" ->
           [description |-> "Solve challenging problems and participate in math competitions",
            schedule |-> "Tuesdays, 3:30 PM - 4:30 PM",
            max_participants |-> 10,
            participants |-> <<"james@mergington.edu", "benjamin@mergington.edu">>]
      [] a = "Debate Team" ->
           [description |-> "Develop public speaking and argumentation skills",
            schedule |-> "Fridays, 4:00 PM - 5:30 PM",
            max_participants |-> 12,
            participants |-> <<"charlotte@mergington.edu", "henry@mergington.edu">>]]

\* Python's "x in list"
Contains(s, x) == \E i \in 1..Len(s) : s[i] = x

\* Python's list.append(x)
ListAppend(s, x) == Append(s, x)

\* index of the first entry equal to x (x occurs in s)
FirstIndex(s, x) == CHOOSE i \in 1..Len(s) : s[i] = x /\ \A j \in 1..(i - 1) : s[j] # x

\* s without its entry at index k
RemoveAt(s, k) == [i \in 1..(Len(s) - 1) |-> IF i < k THEN s[i] ELSE s[i + 1]]

\* Python's list.remove(x): drops the first entry equal to x; a list without
\* x is left as it is (the call raises ValueError)
ListRemove(s, x) == IF Contains(s, x) THEN RemoveAt(s, FirstIndex(s, x)) ELSE s

(* ---------------------------- the database ----------------------------- *)

\* the character codes the timestamps are compared by: '.' sorts below digits
DotChar == 0 - 1

\* datetime.isoformat(): the fraction is left out when the microsecond is 0;
\* one symbol per field, a fixed-width field compares like its number
IsoFormat(t) ==
  IF t.microsecond = 0 THEN <<t.second>> ELSE <<t.second, DotChar, t.microsecond>>

\* SQLite's BINARY collation on TEXT: memcmp, then the shorter string first
RECURSIVE TextLess(_, _)
TextLess(a, b) ==
  IF a = <<>> THEN b # <<>>
  ELSE IF b = <<>> THEN FALSE
  ELSE IF Head(a) # Head(b) THEN Head(a) < Head(b)
  ELSE TextLess(Tail(a), Tail(b))

\* the largest id of the rows (0 for none)
MaxRowId(rs) == IF rs = <<>> THEN 0 ELSE rs[Len(rs)].id

\* the largest rowid handed out again
NextRowId_NoIncrement(rs, sq) == IF sq > MaxRowId(rs) THEN sq ELSE MaxRowId(rs)

\* an INTEGER PRIMARY KEY AUTOINCREMENT column: one more than the largest
\* rowid that ever existed, which sqlite_sequence remembers
NextRowId(rs, sq) == (IF sq > MaxRowId(rs) THEN sq ELSE MaxRowId(rs)) + 1

\* WHERE approved=1, in rowid order
RECURSIVE SelectApproved(_)
SelectApproved(rs) ==
  IF rs = <<>> THEN <<>>
  ELSE IF Head(rs).approved = 1 THEN <<Head(rs)>> \o SelectApproved(Tail(rs))
  ELSE SelectApproved(Tail(rs))

\* ORDER BY created_at ASC
DescOrdered_Asc(x, y) == ~TextLess(y.created_at, x.created_at)

\* the order ORDER BY created_at DESC admits between two neighbours
DescOrdered(x, y) == ~TextLess(x.created_at, y.created_at)

\* the rearrangements of s
Perms(s) ==
  {p \in [1..Len(s) -> 1..Len(s)] : \A i, j \in 1..Len(s) : i # j => p[i] # p[j]}

\* ORDER BY created_at DESC: the order among equal keys is up to SQLite
OrderByCreatedAtDesc(s) ==
  {[i \in 1..Len(s) |-> s[p[i]]] : p \in
     {q \in Perms(s) : \A i \in 1..(Len(s) - 1) : DescOrdered(s[q[i]], s[q[i + 1]])}}

\* the row as the handler returns it: approved as a bool
RowToJson(r) ==
  [id |-> r.id, author |-> r.author, text |-> r.text,
   approved |-> (r.approved # 0), created_at |-> r.created_at]

\* every answer get_testimonials can give on these rows
ListApproved(rs) ==
  {[i \in 1..Len(s) |-> RowToJson(s[i])] : s \in OrderByCreatedAtDesc(SelectApproved(rs))}

(* ------------------------------- state --------------------------------- *)

VARIABLES
  running,      \* the process is up (module loaded, startup event done)
  activities,   \* the module-level dict: name -> activity record
  tableExists,  \* data/app.db has the testimonials table
  rows,         \* the testimonials table, in rowid order
  seq,          \* sqlite_sequence's entry for testimonials
  toggles,      \* history: successful toggles per testimonial id, modulo 2
  last,         \* the request handled last and its response
  net,          \* history: per activity, successful signups minus successful
                \* unregisters since the process started
  client,       \* a caller working through signup, unregister, signup
  inflight      \* the requests the worker threads are in the middle of

vars == <<running, activities, tableExists, rows, seq, toggles, last,
          net, client, inflight>>

\* the threads of the pool that runs the handlers
Workers == {"w1", "w2"}

\* a thread with no request
IdleWorker ==
  [pc |-> "idle", op |-> "none", name |-> "", email |-> "", id |-> 0,
   row |-> <<>>, before |-> <<>>, approved |-> FALSE, status |-> 0]

\* a caller that has not begun
IdleClient == [pc |-> "idle", name |-> "", email |-> "", base |-> <<>>, answers |-> <<>>]

\* no signup and no unregister counted yet
ZeroNet == [n \in DOMAIN SeedActivities |-> 0]

\* the request / response record before any request
NoRequest ==
  [op |-> "none", name |-> "", email |-> "", author |-> "", text |-> "",
   id |-> 0, status |-> 0, approved |-> FALSE, list |-> <<>>, reset |-> FALSE]

Init ==
  /\ running = FALSE
  /\ activities = SeedActivities
  /\ tableExists = FALSE
  /\ rows = <<>>
  /\ seq = 0
  /\ toggles = [i \in TestimonialIds |-> 0]
  /\ last = NoRequest
  /\ net = ZeroNet
  /\ client = IdleClient
  /\ inflight = [w \in Workers |-> IdleWorker]

(* ------------------------------ lifecycle ------------------------------ *)

\* DROP TABLE and CREATE TABLE on every start
InitDbRows_Recreate(exists, rs) == <<>>

\* init_db, CREATE TABLE IF NOT EXISTS: the rows afterwards
InitDbRows(exists, rs) == IF exists THEN rs ELSE <<>>

\* init_db: the AUTOINCREMENT counter afterwards
InitDbSeq(exists, sq) == IF exists THEN sq ELSE 0

\* the roster a freshly loaded module holds
LoadModule == SeedActivities

\* the process starts: the module is loaded, then the startup event runs;
\* last.reset records that the run before had changed the roster
Startup ==
  /\ ~running
  /\ running' = TRUE
  /\ activities' = LoadModule
  /\ tableExists' = TRUE
  /\ rows' = InitDbRows(tableExists, rows)
  /\ seq' = InitDbSeq(tableExists, seq)
  /\ last' = [NoRequest EXCEPT !.op = "startup", !.reset = (activities # SeedActivities)]
  /\ UNCHANGED toggles

\* the process stops; its memory is gone, the database file stays
Shutdown ==
  /\ running
  /\ running' = FALSE
  /\ last' = [NoRequest EXCEPT !.op = "shutdown"]
  /\ UNCHANGED <<activities, tableExists, rows, seq, toggles>>

(* ------------------------------- roster -------------------------------- *)

\* what get_activities returns: the dict itself
ListActivities == activities

GetActivities ==
  /\ running
  /\ last' = [NoRequest EXCEPT !.op = "get_activities", !.status = 200]
  /\ UNCHANGED <<running, activities, tableExists, rows, seq, toggles>>

\* activity_name not in activities
UnknownActivity(acts, activity_name) == activity_name \notin DOMAIN acts

\* the membership test left out
AlreadySignedUp_Never(ps, email) == FALSE

\* the membership test looking at the first participant only
AlreadySignedUp_FirstOnly(ps, email) == ps # <<>> /\ ps[1] = email

\* email in activity["participants"]
AlreadySignedUp(ps, email) == Contains(ps, email)

\* the email appended twice
SignupParticipants_Twice(ps, email) == ps \o <<email, email>>

\* the email appended only when the list does not hold it
SignupParticipants_IfAbsent(ps, email) == IF Contains(ps, email) THEN ps ELSE Append(ps, email)

\* insert(0, email) in place of append(email)
SignupParticipants_Prepend(ps, email) == <<email>> \o ps

\* activity["participants"].append(email)
SignupParticipants(ps, email) == ListAppend(ps, email)

\* signup that makes an entry for a name it does not know
SignupForActivity_Creates(activity_name, email) ==
  LET req == [NoRequest EXCEPT !.op = "signup", !.name = activity_name, !.email = email]
  IN
  /\ running
  /\ IF UnknownActivity(activities, activity_name)
       THEN /\ last' = [req EXCEPT !.status = 200]
            /\ activities' =
                 [m \in DOMAIN activities \cup {activity_name} |->
                    IF m = activity_name
                      THEN [description |-> "", schedule |-> "", max_participants |-> 0,
                            participants |-> <<email>>]
                      ELSE activities[m]]
       ELSE IF AlreadySignedUp(activities[activity_name].participants, email)
         THEN /\ last' = [req EXCEPT !.status = 400]
              /\ UNCHANGED activities
         ELSE /\ activities' =
                   [activities EXCEPT ![activity_name].participants =
                      SignupParticipants(@, email)]
              /\ last' = [req EXCEPT !.status = 200]
  /\ UNCHANGED <<running, tableExists, rows, seq, toggles>>

\* signup with a capacity check in front of the append
SignupForActivity_Capped(activity_name, email) ==
  LET req == [NoRequest EXCEPT !.op = "signup", !.name = activity_name, !.email = email]
  IN
  /\ running
  /\ IF UnknownActivity(activities, activity_name)
       THEN /\ last' = [req EXCEPT !.status = 404]
            /\ UNCHANGED activities
       ELSE IF \/ AlreadySignedUp(activities[activity_name].participants, email)
               \/ Len(activities[activity_name].participants) >=
                    activities[activity_name].max_participants
         THEN /\ last' = [req EXCEPT !.status = 400]
              /\ UNCHANGED activities
         ELSE /\ activities' =
                   [activities EXCEPT ![activity_name].participants =
                      SignupParticipants(@, email)]
              /\ last' = [req EXCEPT !.status = 200]
  /\ UNCHANGED <<running, tableExists, rows, seq, toggles>>

SignupForActivity(activity_name, email) ==
  LET req == [NoRequest EXCEPT !.op = "signup", !.name = activity_name, !.email = email]
  IN
  /\ running
  /\ IF UnknownActivity(activities, activity_name)
       THEN /\ last' = [req EXCEPT !.status = 404]
            /\ UNCHANGED activities
       ELSE IF AlreadySignedUp(activities[activity_name].participants, email)
         THEN /\ last' = [req EXCEPT !.status = 400]
              /\ UNCHANGED activities
         ELSE /\ activities' =
                   [activities EXCEPT ![activity_name].participants =
                      SignupParticipants(@, email)]
              /\ last' = [req EXCEPT !.status = 200]
  /\ UNCHANGED <<running, tableExists, rows, seq, toggles>>

\* the test asking only whether anybody is signed up
NotSignedUp_EmptyOnly(ps, email) == ps = <<>>

\* email not in activity["participants"]
NotSignedUp(ps, email) == ~Contains(ps, email)

\* pop() in place of remove(email)
UnregisterParticipants_Pop(ps, email) == SubSeq(ps, 1, Len(ps) - 1)

\* activity["participants"].remove(email)
UnregisterParticipants(ps, email) == ListRemove(ps, email)

UnregisterFromActivity(activity_name, email) ==
  LET req == [NoRequest EXCEPT !.op = "unregister", !.name = activity_name, !.email = email]
  IN
  /\ running
  /\ IF UnknownActivity(activities, activity_name)
       THEN /\ last' = [req EXCEPT !.status = 404]
            /\ UNCHANGED activities
       ELSE IF NotSignedUp(activities[activity_name].participants, email)
         THEN /\ last' = [req EXCEPT !.status = 400]
              /\ UNCHANGED activities
         ELSE /\ activities' =
                   [activities EXCEPT ![activity_name].participants =
                      UnregisterParticipants(@, email)]
              /\ last' = [req EXCEPT !.status = 200]
  /\ UNCHANGED <<running, tableExists, rows, seq, toggles>>

(* ---------------------------- testimonials ----------------------------- *)

GetTestimonials ==
  /\ running
  /\ \E answer \in ListApproved(rows) :
       last' = [NoRequest EXCEPT !.op = "get_testimonials", !.status = 200,
                                 !.list = answer]
  /\ UNCHANGED <<running, activities, tableExists, rows, seq, toggles>>

\* the row INSERT ... VALUES (?, ?, 0, ?) stores
InsertedRow(rs, sq, author, text, now) ==
  [id |-> NextRowId(rs, sq), author |-> author, text |-> text,
   approved |-> 0, created_at |-> IsoFormat(now)]

SubmitTestimonial(author, text, now) ==
  /\ running
  /\ Len(rows) < MaxTestimonials
  /\ LET row == InsertedRow(rows, seq, author, text, now)
     IN  /\ rows' = Append(rows, row)
         /\ seq' = row.id
         /\ last' = [NoRequest EXCEPT !.op = "submit", !.status = 200,
                                      !.id = row.id, !.author = author,
                                      !.text = text, !.approved = FALSE]
  /\ UNCHANGED <<running, activities, tableExists, toggles>>

\* a missing row read as an unapproved one
FetchApproved_Default(rs, id) ==
  IF \E i \in 1..Len(rs) : rs[i].id = id
    THEN <<rs[CHOOSE i \in 1..Len(rs) : rs[i].id = id].approved>>
    ELSE <<0>>

\* SELECT approved ... WHERE id = ?, fetchone(): <<>> for None
FetchApproved(rs, id) ==
  IF \E i \in 1..Len(rs) : rs[i].id = id
    THEN <<rs[CHOOSE i \in 1..Len(rs) : rs[i].id = id].approved>>
    ELSE <<>>

\* approval that cannot be taken back
NewVal_AlwaysApprove(approved) == 1

\* new_val = 0 if row[0] == 1 else 1
NewVal(approved) == IF approved = 1 THEN 0 ELSE 1

\* the UPDATE without its WHERE clause
UpdateApproved_AllRows(rs, id, val) ==
  [i \in 1..Len(rs) |-> [rs[i] EXCEPT !.approved = val]]

\* UPDATE testimonials SET approved = ? WHERE id = ?
UpdateApproved(rs, id, val) ==
  [i \in 1..Len(rs) |-> IF rs[i].id = id THEN [rs[i] EXCEPT !.approved = val] ELSE rs[i]]

ToggleTestimonialApproval(testimonial_id) ==
  LET req == [NoRequest EXCEPT !.op = "toggle", !.id = testimonial_id]
      row == FetchApproved(rows, testimonial_id)
  IN
  /\ running
  /\ IF row = <<>>
       THEN /\ last' = [req EXCEPT !.status = 404]
            /\ UNCHANGED <<rows, toggles>>
       ELSE LET new_val == NewVal(row[1])
            IN  /\ rows' = UpdateApproved(rows, testimonial_id, new_val)
                /\ toggles' = [toggles EXCEPT ![testimonial_id] = (@ + 1) % 2]
                /\ last' = [req EXCEPT !.status = 200, !.approved = (new_val # 0)]
  /\ UNCHANGED <<running, activities, tableExists, seq>>

(* ---------------------------- specification ---------------------------- *)

\* the history of the step: the response just given is counted in net
Counted ==
  net' = IF last'.op = "startup" THEN ZeroNet
         ELSE [n \in DOMAIN net |->
                 net[n]
                 + (IF last'.op = "signup" /\ last'.status = 200 /\ last'.name = n
                      THEN 1 ELSE 0)
                 - (IF last'.op = "unregister" /\ last'.status = 200 /\ last'.name = n
                      THEN 1 ELSE 0)]

\* a request handled from start to end with no other request in between
Sequential == Counted /\ UNCHANGED <<client, inflight>>

Next ==
  \/ Startup /\ Sequential
  \/ Shutdown /\ Sequential
  \/ GetActivities /\ Sequential
  \/ \E n \in ActivityNames, e \in Emails : SignupForActivity(n, e) /\ Sequential
  \/ \E n \in ActivityNames, e \in Emails : UnregisterFromActivity(n, e) /\ Sequential
  \/ GetTestimonials /\ Sequential
  \/ \E a \in Authors, t \in Texts, now \in Times :
       SubmitTestimonial(a, t, now) /\ Sequential
  \/ \E id \in TestimonialIds : ToggleTestimonialApproval(id) /\ Sequential

Spec == Init /\ [][Next]_vars

(* ----------------------- a club filling up --------------------------- *)

\* the students who sign up for Math Club one after the other until one
\* place is left
FillerEmails ==
  <<"s1@mergington.edu", "s2@mergington.edu", "s3@mergington.edu",
    "s4@mergington.edu", "s5@mergington.edu", "s6@mergington.edu",
    "s7@mergington.edu">>

\* the students who sign up and unregister after them, in any order
LateEmails == {"late1@mergington.edu", "late2@mergington.edu", "late3@mergington.edu"}

\* the first k filler students are signed up for Math Club
Filled(k) ==
  \A j \in 1..k : Contains(activities["Math Club"].participants, FillerEmails[j])

NextOverbook ==
  \/ Startup /\ Sequential
  \/ GetActivities /\ Sequential
  \/ \E k \in 1..Len(FillerEmails) :
       /\ Filled(k - 1)
       /\ SignupForActivity("Math Club", FillerEmails[k])
       /\ Sequential
  \/ \E e \in LateEmails :
       /\ Filled(Len(FillerEmails))
       /\ SignupForActivity("Math Club", e)
       /\ Sequential
  \/ \E e \in LateEmails : UnregisterFromActivity("Math Club", e) /\ Sequential

\* requests for Math Club only, enough of them to pass its max_participants
SpecOverbook == Init /\ [][NextOverbook]_vars

(* --------------------- testimonial payloads --------------------------- *)

\* request bodies for POST /testimonials; a field holds <<>> when the body
\* lacks it and <<s>> when the body gives the string s
Payloads ==
  {[author |-> <<"Jane">>, text |-> <<"Great club!">>],
   [author |-> <<"">>, text |-> <<"Great club!">>],
   [author |-> <<"Jane">>, text |-> <<"">>],
   [author |-> <<"Jane">>, text |-> <<>>]}

\* TestimonialIn: both fields are required and of type str, nothing more
ValidTestimonialIn(payload) == payload.author # <<>> /\ payload.text # <<>>

\* POST /testimonials: the body is validated against TestimonialIn before
\* the handler runs; a body that fails is answered 422
SubmitRequest(payload, now) ==
  IF ValidTestimonialIn(payload)
    THEN SubmitTestimonial(payload.author[1], payload.text[1], now)
    ELSE /\ running
         /\ last' = [NoRequest EXCEPT !.op = "submit", !.status = 422]
         /\ UNCHANGED <<running, activities, tableExists, rows, seq, toggles>>

NextStore ==
  \/ Startup /\ Sequential
  \/ Shutdown /\ Sequential
  \/ GetTestimonials /\ Sequential
  \/ \E payload \in Payloads, now \in Times : SubmitRequest(payload, now) /\ Sequential
  \/ \E id \in TestimonialIds : ToggleTestimonialApproval(id) /\ Sequential

\* the testimonial requests, with bodies that have empty and missing fields
SpecStore == Init /\ [][NextStore]_vars

(* ------------------- signup, unregister, signup ----------------------- *)

\* a caller picks an activity and an email; base is the participants list it
\* starts from
ClientBegin(activity_name, email) ==
  /\ running
  /\ client.pc = "idle"
  /\ client' = [pc |-> "signup", name |-> activity_name, email |-> email,
                base |-> IF activity_name \in DOMAIN activities
                           THEN activities[activity_name].participants ELSE <<>>,
                answers |-> <<>>]
  /\ UNCHANGED <<running, activities, tableExists, rows, seq, toggles, last,
                 net, inflight>>

\* its first request: POST .../signup
ClientSignup ==
  /\ client.pc = "signup"
  /\ SignupForActivity(client.name, client.email)
  /\ Counted
  /\ client' = [client EXCEPT !.pc = "unregister",
                              !.answers = Append(@, last'.status)]
  /\ UNCHANGED inflight

\* its second request: DELETE .../unregister
ClientUnregister ==
  /\ client.pc = "unregister"
  /\ UnregisterFromActivity(client.name, client.email)
  /\ Counted
  /\ client' = [client EXCEPT !.pc = "signup again",
                              !.answers = Append(@, last'.status)]
  /\ UNCHANGED inflight

\* its third request: POST .../signup once more
ClientSignupAgain ==
  /\ client.pc = "signup again"
  /\ SignupForActivity(client.name, client.email)
  /\ Counted
  /\ client' = [client EXCEPT !.pc = "done",
                              !.answers = Append(@, last'.status)]
  /\ UNCHANGED inflight

\* the caller is through; another one may begin
ClientEnd ==
  /\ client.pc = "done"
  /\ client' = IdleClient
  /\ UNCHANGED <<running, activities, tableExists, rows, seq, toggles, last,
                 net, inflight>>

NextReenroll ==
  \/ Startup /\ Sequential
  \/ \E n \in ActivityNames, e \in Emails :
       client.pc = "idle" /\ SignupForActivity(n, e) /\ Sequential
  \/ \E n \in ActivityNames, e \in Emails :
       client.pc = "idle" /\ UnregisterFromActivity(n, e) /\ Sequential
  \/ \E n \in ActivityNames, e \in Emails : ClientBegin(n, e)
  \/ ClientSignup
  \/ ClientUnregister
  \/ ClientSignupAgain
  \/ ClientEnd

\* any requests one at a time, and among them a caller whose three requests
\* follow each other directly
SpecReenroll == Init /\ [][NextReenroll]_vars

(* ------------------- roster requests in parallel ---------------------- *)

\* what the requests in flight leave alone
StoreUntouched == UNCHANGED <<running, tableExists, rows, seq, toggles, client>>

\* thread w takes a signup request and runs it up to the append: the two
\* checks (the keys of the dict never change, so the lookup and the
\* membership test are one step)
SignupCheck(w, activity_name, email) ==
  LET req == [NoRequest EXCEPT !.op = "signup", !.name = activity_name, !.email = email]
  IN
  /\ running
  /\ inflight[w].pc = "idle"
  /\ IF UnknownActivity(activities, activity_name)
       THEN /\ last' = [req EXCEPT !.status = 404]
            /\ Counted
            /\ UNCHANGED inflight
       ELSE IF AlreadySignedUp(activities[activity_name].participants, email)
         THEN /\ last' = [req EXCEPT !.status = 400]
              /\ Counted
              /\ UNCHANGED inflight
         ELSE /\ Len(activities[activity_name].participants) < MaxRoster
              /\ inflight' = [inflight EXCEPT ![w] =
                   [IdleWorker EXCEPT !.pc = "append", !.op = "signup",
                                      !.name = activity_name, !.email = email]]
              /\ UNCHANGED <<last, net>>
  /\ UNCHANGED activities
  /\ StoreUntouched

\* thread w goes on: the append and the answer
SignupAppend(w) ==
  LET r == inflight[w]
  IN
  /\ r.pc = "append"
  /\ activities' = [activities EXCEPT ![r.name].participants =
                       SignupParticipants(@, r.email)]
  /\ last' = [NoRequest EXCEPT !.op = "signup", !.name = r.name, !.email = r.email,
                               !.status = 200]
  /\ Counted
  /\ inflight' = [inflight EXCEPT ![w] = IdleWorker]
  /\ StoreUntouched

\* thread w takes an unregister request and runs it up to the remove
UnregisterCheck(w, activity_name, email) ==
  LET req == [NoRequest EXCEPT !.op = "unregister", !.name = activity_name, !.email = email]
  IN
  /\ running
  /\ inflight[w].pc = "idle"
  /\ IF UnknownActivity(activities, activity_name)
       THEN /\ last' = [req EXCEPT !.status = 404]
            /\ Counted
            /\ UNCHANGED inflight
       ELSE IF NotSignedUp(activities[activity_name].participants, email)
         THEN /\ last' = [req EXCEPT !.status = 400]
              /\ Counted
              /\ UNCHANGED inflight
         ELSE /\ inflight' = [inflight EXCEPT ![w] =
                   [IdleWorker EXCEPT !.pc = "remove", !.op = "unregister",
                                      !.name = activity_name, !.email = email]]
              /\ UNCHANGED <<last, net>>
  /\ UNCHANGED activities
  /\ StoreUntouched

\* thread w goes on: the remove and the answer; list.remove raises ValueError
\* for an email that is gone, which the framework answers with 500
UnregisterRemove(w) ==
  LET r == inflight[w]
      req == [NoRequest EXCEPT !.op = "unregister", !.name = r.name, !.email = r.email]
  IN
  /\ r.pc = "remove"
  /\ IF Contains(activities[r.name].participants, r.email)
       THEN /\ activities' = [activities EXCEPT ![r.name].participants =
                                UnregisterParticipants(@, r.email)]
            /\ last' = [req EXCEPT !.status = 200]
       ELSE /\ UNCHANGED activities
            /\ last' = [req EXCEPT !.status = 500]
  /\ Counted
  /\ inflight' = [inflight EXCEPT ![w] = IdleWorker]
  /\ StoreUntouched

NextRace ==
  \/ Startup /\ Sequential
  \/ \E w \in Workers, n \in ActivityNames, e \in Emails : SignupCheck(w, n, e)
  \/ \E w \in Workers : SignupAppend(w)
  \/ \E w \in Workers, n \in ActivityNames, e \in Emails : UnregisterCheck(w, n, e)
  \/ \E w \in Workers : UnregisterRemove(w)

\* signup and unregister requests on two threads, each a check step and a
\* mutation step, interleaved in every way
SpecRace == Init /\ [][NextRace]_vars

(* ------------------- toggle requests in parallel ---------------------- *)

\* what a toggle request in flight leaves alone
RosterUntouched == UNCHANGED <<running, activities, tableExists, seq, net, client>>

\* two PUT /testimonials/{id}/approve requests for one id arrive, one on each
\* thread; before is what SELECT approved gave at that moment
TogglePairBegin(testimonial_id) ==
  /\ running
  /\ \A w \in Workers : inflight[w].pc = "idle"
  /\ inflight' = [w \in Workers |->
       [IdleWorker EXCEPT !.pc = "select", !.op = "toggle", !.id = testimonial_id,
                          !.before = FetchApproved(rows, testimonial_id)]]
  /\ UNCHANGED <<rows, toggles, last>>
  /\ RosterUntouched

\* thread w: connect, SELECT approved, fetchone, and the 404 for no row
ToggleSelect(w) ==
  LET r == inflight[w]
      row == FetchApproved(rows, r.id)
  IN
  /\ r.pc = "select"
  /\ IF row = <<>>
       THEN /\ last' = [NoRequest EXCEPT !.op = "toggle", !.id = r.id, !.status = 404]
            /\ inflight' = [inflight EXCEPT ![w].pc = "done", ![w].status = 404]
       ELSE /\ inflight' = [inflight EXCEPT ![w].pc = "update", ![w].row = row]
            /\ UNCHANGED last
  /\ UNCHANGED <<rows, toggles>>
  /\ RosterUntouched

\* thread w: new_val from the row it read, UPDATE, commit, and the answer;
\* the UPDATE and its commit hold the database's write lock, so they are one
\* step
ToggleUpdate(w) ==
  LET r == inflight[w]
      new_val == NewVal(r.row[1])
  IN
  /\ r.pc = "update"
  /\ rows' = UpdateApproved(rows, r.id, new_val)
  /\ toggles' = [toggles EXCEPT ![r.id] = (@ + 1) % 2]
  /\ last' = [NoRequest EXCEPT !.op = "toggle", !.id = r.id, !.status = 200,
                               !.approved = (new_val # 0)]
  /\ inflight' = [inflight EXCEPT ![w].pc = "done", ![w].status = 200,
                                  ![w].approved = (new_val # 0)]
  /\ RosterUntouched

\* both requests are answered; the threads are free again
TogglePairEnd ==
  /\ \A w \in Workers : inflight[w].pc = "done"
  /\ inflight' = [w \in Workers |-> IdleWorker]
  /\ UNCHANGED <<rows, toggles, last>>
  /\ RosterUntouched

\* no toggle request is in flight
NoToggleInFlight == \A w \in Workers : inflight[w].pc = "idle"

NextToggleRace ==
  \/ Startup /\ Sequential
  \/ \E a \in Authors, t \in Texts, now \in Times :
       NoToggleInFlight /\ SubmitTestimonial(a, t, now) /\ Sequential
  \/ \E id \in TestimonialIds :
       NoToggleInFlight /\ ToggleTestimonialApproval(id) /\ Sequential
  \/ NoToggleInFlight /\ GetTestimonials /\ Sequential
  \/ \E id \in TestimonialIds : TogglePairBegin(id)
  \/ \E w \in Workers : ToggleSelect(w)
  \/ \E w \in Workers : ToggleUpdate(w)
  \/ TogglePairEnd

\* testimonial requests one at a time and, between them, two toggles of one
\* id on two threads, their SELECT and UPDATE steps interleaved in every way
SpecToggleRace == Init /\ [][NextToggleRace]_vars

(* ------------------------------ properties ----------------------------- *)

\* the step handled a signup / an unregister request for (n, e)
SignupStep(n, e) ==
  running /\ last'.op = "signup" /\ last'.name = n /\ last'.email = e

UnregisterStep(n, e) ==
  running /\ last'.op = "unregister" /\ last'.name = n /\ last'.email = e

\* everything the testimonial store persists
Store == <<tableExists, rows, seq>>

\* C1: for an activity of the roster and an email not among its participants,
\* signup succeeds and the new participants are the old ones, each at its old
\* position, followed by the email.
C1_EnrollAppends ==
  [][\A n \in DOMAIN activities, e \in Emails :
       (SignupStep(n, e) /\ ~Contains(activities[n].participants, e)) =>
         LET old == activities[n].participants
             new == activities'[n].participants
         IN  /\ last'.status = 200
             /\ Len(new) = Len(old) + 1
             /\ \A i \in 1..Len(old) : new[i] = old[i]
             /\ new[Len(new)] = e]_vars

\* a signup succeeded on a list that another signup had already extended
C1_Witness ==
  /\ last.op = "signup" /\ last.status = 200 /\ last.name = "Chess Club"
  /\ LET ps == activities["Chess Club"].participants
     IN  Len(ps) = 3 /\ ps[3] = last.email /\ ps[2] = "zoe@mergington.edu"

\* C2: signup answers 404 for a name outside the roster and 400 for an email
\* that is already a participant, and changes nothing in either case; a
\* successful signup leaves the email a participant, so that repeating it is
\* the 400 case and keeps the participant count.
C2_EnrollFailures ==
  [][\A n \in ActivityNames, e \in Emails :
       SignupStep(n, e) =>
         /\ (n \notin DOMAIN activities) =>
              (last'.status = 404 /\ activities' = activities /\ Store' = Store)
         /\ (n \in DOMAIN activities /\ Contains(activities[n].participants, e)) =>
              /\ last'.status = 400
              /\ activities' = activities
              /\ Len(activities'[n].participants) = Len(activities[n].participants)
              /\ Store' = Store
         /\ (last'.status = 200) =>
              (n \in DOMAIN activities' /\ Contains(activities'[n].participants, e))]_vars

\* the second signup of an email that the run itself had signed up
C2_Witness ==
  /\ last.op = "signup" /\ last.status = 400 /\ last.email = "zoe@mergington.edu"
  /\ last.name = "Programming Class"
  /\ Contains(activities["Programming Class"].participants, "zoe@mergington.edu")

\* C3: for an activity of the roster and an email among its participants,
\* unregister succeeds and the new participants are the old ones without
\* that email's entry: the others stay, in their order, and the email is gone.
C3_WithdrawRemoves ==
  [][\A n \in DOMAIN activities, e \in Emails :
       (UnregisterStep(n, e) /\ Contains(activities[n].participants, e)) =>
         LET old == activities[n].participants
             new == activities'[n].participants
         IN  /\ last'.status = 200
             /\ Len(new) = Len(old) - 1
             /\ ~Contains(new, e)
             /\ \E k \in 1..Len(old) :
                  /\ old[k] = e
                  /\ \A i \in 1..Len(new) : new[i] = IF i < k THEN old[i] ELSE old[i + 1]]_vars

\* an unregister took an entry out of the middle of a list
C3_Witness ==
  /\ last.op = "unregister" /\ last.status = 200 /\ last.name = "Chess Club"
  /\ last.email = "zoe@mergington.edu"
  /\ activities["Chess Club"].participants =
       <<"daniel@mergington.edu", "michael@mergington.edu">>

\* C4: unregister answers 404 for a name outside the roster and 400 for an
\* email that is not a participant (never signed up, or unregistered before),
\* and changes nothing in either case.
C4_WithdrawFailures ==
  [][\A n \in ActivityNames, e \in Emails :
       UnregisterStep(n, e) =>
         /\ (n \notin DOMAIN activities) =>
              (last'.status = 404 /\ activities' = activities /\ Store' = Store)
         /\ (n \in DOMAIN activities /\ ~Contains(activities[n].participants, e)) =>
              (last'.status = 400 /\ activities' = activities /\ Store' = Store)]_vars

\* an unregister was refused for an email the run had unregistered before
C4_Witness ==
  /\ last.op = "unregister" /\ last.status = 400 /\ last.name = "Chess Club"
  /\ last.email = "michael@mergington.edu"
  /\ activities["Chess Club"].participants = <<"daniel@mergington.edu">>

\* C5: no email occurs twice among the participants of any activity.
C5_ParticipantsUnique ==
  \A n \in DOMAIN activities :
    \A i, j \in 1..Len(activities[n].participants) :
      activities[n].participants[i] = activities[n].participants[j] => i = j

\* a roster that signups and unregisters have rearranged
C5_Witness ==
  /\ activities["Chess Club"].participants =
       <<"daniel@mergington.edu", "zoe@mergington.edu", "michael@mergington.edu">>
  /\ Len(activities["Programming Class"].participants) = 4

\* the testimonial id is in some / in every answer get_testimonials can give
Listed(rs, id) ==
  \E ans \in ListApproved(rs) : \E k \in 1..Len(ans) : ans[k].id = id

ListedAlways(rs, id) ==
  \A ans \in ListApproved(rs) : \E k \in 1..Len(ans) : ans[k].id = id

\* the stored rows with this id
RowsWithId(rs, id) == {i \in 1..Len(rs) : rs[i].id = id}

\* C6: a submitted testimonial is stored and returned unapproved and is not
\* listed; every successful toggle returns the flag it persisted and flips
\* whether the testimonial is listed; a testimonial is listed exactly when it
\* has been toggled an odd number of times.
C6_ToggleParity ==
  /\ [](\A i \in 1..Len(rows) :
          /\ Listed(rows, rows[i].id) <=> (toggles[rows[i].id] = 1)
          /\ ListedAlways(rows, rows[i].id) <=> (toggles[rows[i].id] = 1))
  /\ [][/\ (running /\ last'.op = "submit") =>
             /\ last'.approved = FALSE
             /\ rows'[Len(rows')].id = last'.id
             /\ rows'[Len(rows')].approved = 0
             /\ toggles'[last'.id] = 0
             /\ ~Listed(rows', last'.id)
        /\ (running /\ last'.op = "toggle" /\ last'.status = 200) =>
             /\ \A i \in RowsWithId(rows', last'.id) :
                  last'.approved = (rows'[i].approved = 1)
             /\ RowsWithId(rows', last'.id) # {}
             /\ ListedAlways(rows', last'.id) <=> last'.approved
             /\ Listed(rows', last'.id) <=> ~Listed(rows, last'.id)]_vars

\* the second toggle of a testimonial took it off the list again, next to
\* another testimonial that stays listed
C6_Witness ==
  /\ last.op = "toggle" /\ last.status = 200 /\ last.approved = FALSE
  /\ \E i \in 1..Len(rows) : rows[i].id = last.id /\ rows[i].approved = 0
  /\ ~Listed(rows, last.id)
  /\ \E i \in 1..Len(rows) : rows[i].id # last.id /\ ListedAlways(rows, rows[i].id)

\* C7: a toggle for an id that no stored testimonial has answers 404 and
\* leaves the table as it is: no row more, no row less, no flag changed.
C7_ToggleUnknownId ==
  [][\A id \in TestimonialIds :
       (running /\ last'.op = "toggle" /\ last'.id = id /\ RowsWithId(rows, id) = {}) =>
         (last'.status = 404 /\ rows' = rows /\ Store' = Store)]_vars

\* a toggle was refused while the table held an approved testimonial
C7_Witness ==
  /\ last.op = "toggle" /\ last.status = 404
  /\ RowsWithId(rows, last.id) = {}
  /\ \E i \in 1..Len(rows) : rows[i].approved = 1

\* C8: a restart keeps every stored testimonial as it is (id, author, text,
\* created_at, approved) and puts the roster back to the seed data.
C8_RestartKeepsStoreResetsRoster ==
  [][/\ (running' # running) => (rows' = rows /\ seq' = seq)
     /\ (~running /\ running') => (activities' = SeedActivities /\ tableExists')]_vars

\* the process came up again over a changed roster and a table holding an
\* approved and an unapproved testimonial
C8_Witness ==
  /\ running /\ last.op = "startup" /\ last.reset
  /\ activities = SeedActivities
  /\ \E i \in 1..Len(rows) : rows[i].approved = 1
  /\ \E i \in 1..Len(rows) : rows[i].approved = 0

\* the answer last.list holds exactly the approved rows of the table, each once
ExactlyApproved(list, rs) ==
  /\ \A i \in 1..Len(rs) :
       (rs[i].approved = 1) <=> (\E k \in 1..Len(list) : list[k].id = rs[i].id)
  /\ \A k \in 1..Len(list) :
       /\ list[k].approved = TRUE
       /\ \E i \in 1..Len(rs) :
            /\ rs[i].id = list[k].id /\ rs[i].author = list[k].author
            /\ rs[i].text = list[k].text /\ rs[i].created_at = list[k].created_at
  /\ \A k, l \in 1..Len(list) : list[k].id = list[l].id => k = l

\* a get_testimonials step changes nothing but the response
ListingChangesNothing ==
  [][(running /\ last'.op = "get_testimonials") =>
       UNCHANGED <<running, activities, tableExists, rows, seq, toggles>>]_vars

\* C9 as claimed: the answer holds exactly the approved testimonials, by
\* created_at descending, so that a testimonial submitted later (larger id)
\* comes before one submitted earlier; nothing stored changes.
C9_Original ==
  /\ [](last.op = "get_testimonials" =>
          /\ ExactlyApproved(last.list, rows)
          /\ \A k, l \in 1..Len(last.list) :
               k < l => /\ ~TextLess(last.list[k].created_at, last.list[l].created_at)
                        /\ last.list[k].id > last.list[l].id)
  /\ ListingChangesNothing

\* C9 as amended: the answer holds exactly the approved testimonials, with
\* created_at never increasing along it, so that a testimonial submitted
\* later comes before an earlier one whenever its created_at is the greater
\* of the two; nothing stored changes.
C9_ListApprovedOrder ==
  /\ [](last.op = "get_testimonials" =>
          /\ ExactlyApproved(last.list, rows)
          /\ \A k, l \in 1..Len(last.list) :
               /\ k < l => ~TextLess(last.list[k].created_at, last.list[l].created_at)
               /\ (/\ last.list[k].id > last.list[l].id
                   /\ TextLess(last.list[l].created_at, last.list[k].created_at)) => k < l)
  /\ ListingChangesNothing

\* an answer of two testimonials, the later one first, beside an unapproved one
C9_Witness ==
  /\ last.op = "get_testimonials" /\ Len(last.list) = 2
  /\ last.list[1].id > last.list[2].id
  /\ TextLess(last.list[2].created_at, last.list[1].created_at)

\* C10: the ids of the stored testimonials are distinct and increase in the
\* order of submission; a submit returns an id above every id handed out
\* before, restarts included; a stored testimonial keeps its id and no row
\* disappears.
C10_IdsIncrease ==
  /\ [](/\ \A i, j \in 1..Len(rows) : i < j => rows[i].id < rows[j].id
        /\ \A i \in 1..Len(rows) : rows[i].id <= seq)
  /\ [][/\ (running /\ last'.op = "submit") =>
             /\ \A i \in 1..Len(rows) : last'.id > rows[i].id
             /\ last'.id > seq
             /\ Len(rows') = Len(rows) + 1
             /\ rows'[Len(rows')].id = last'.id
        /\ Len(rows') >= Len(rows)
        /\ \A i \in 1..Len(rows) :
             /\ rows'[i].id = rows[i].id
             /\ rows'[i].author = rows[i].author
             /\ rows'[i].text = rows[i].text
             /\ rows'[i].created_at = rows[i].created_at]_vars

\* a second id was handed out after the first testimonial had been approved
C10_Witness ==
  /\ last.op = "submit" /\ last.id = 2 /\ Len(rows) = 2
  /\ rows[1].id = 1 /\ rows[1].approved = 1 /\ rows[2].id = 2

\* C11: signup does not look at max_participants: for an activity that
\* already has max_participants participants or more, the signup of an email
\* that is not a participant succeeds and appends it, so that the count goes
\* beyond max_participants.
C11_NoCapacityCheck ==
  [][\A n \in DOMAIN activities, e \in LateEmails :
       (/\ running /\ last'.op = "signup" /\ last'.name = n /\ last'.email = e
        /\ ~Contains(activities[n].participants, e)
        /\ Len(activities[n].participants) >= activities[n].max_participants) =>
         /\ last'.status = 200
         /\ activities'[n].participants = Append(activities[n].participants, e)
         /\ Len(activities'[n].participants) > activities'[n].max_participants]_vars

\* a signup succeeded for an activity that was over its max_participants
C11_Witness ==
  /\ last.op = "signup" /\ last.status = 200 /\ last.name = "Math Club"
  /\ Len(activities["Math Club"].participants) =
       activities["Math Club"].max_participants + 2

\* C12: a stored testimonial keeps its id, author, text and created_at and is
\* never deleted; its approved flag changes only in a successful toggle for
\* its own id, which flips it (1 to 0, 0 to 1); such a toggle does change the
\* flag of its testimonial and of no other.
C12_OnlyToggleChangesApproved ==
  [][/\ Len(rows') >= Len(rows)
     /\ \A i \in 1..Len(rows) :
          /\ rows'[i].id = rows[i].id
          /\ rows'[i].author = rows[i].author
          /\ rows'[i].text = rows[i].text
          /\ rows'[i].created_at = rows[i].created_at
          /\ rows'[i].approved # rows[i].approved =>
               /\ running /\ last'.op = "toggle" /\ last'.status = 200
               /\ last'.id = rows[i].id
               /\ rows'[i].approved = 1 - rows[i].approved
     /\ (running /\ last'.op = "toggle" /\ last'.status = 200) =>
          \E i \in 1..Len(rows) :
            rows[i].id = last'.id /\ rows'[i].approved # rows[i].approved]_vars

\* a toggle approved one testimonial beside another that was never approved
C12_Witness ==
  /\ last.op = "toggle" /\ last.status = 200 /\ last.approved = TRUE
  /\ \E i \in 1..Len(rows) : rows[i].id = last.id /\ rows[i].approved = 1
  /\ \E i \in 1..Len(rows) :
       rows[i].id # last.id /\ rows[i].approved = 0 /\ toggles[rows[i].id] = 0

\* C13: the roster always has the activities of the seed data, each with
\* the seed's description, schedule and max_participants; a signup or an
\* unregister, whatever its answer, leaves every activity but the named one
\* exactly as it was, and the named one too unless it answers 200.
C13_RosterFrame ==
  /\ [](/\ DOMAIN activities = DOMAIN SeedActivities
        /\ \A n \in DOMAIN SeedActivities :
             /\ activities[n].description = SeedActivities[n].description
             /\ activities[n].schedule = SeedActivities[n].schedule
             /\ activities[n].max_participants = SeedActivities[n].max_participants)
  /\ [][\A n \in ActivityNames, e \in Emails :
          (SignupStep(n, e) \/ UnregisterStep(n, e)) =>
            /\ DOMAIN activities' = DOMAIN activities
            /\ \A m \in DOMAIN activities : m # n => activities'[m] = activities[m]
            /\ last'.status # 200 => activities' = activities]_vars

\* a request for an unknown activity was refused while one seeded activity
\* had been changed and another had not
C13_Witness ==
  /\ last.name = "Knitting Club" /\ last.status = 404
  /\ activities["Chess Club"].participants # SeedActivities["Chess Club"].participants
  /\ activities["Programming Class"] = SeedActivities["Programming Class"]
  /\ "Knitting Club" \notin DOMAIN activities

\* C14: every activity that get_activities returns has at most as many
\* participants as the seed gave it, plus the signups that succeeded for it,
\* minus the unregisters that succeeded for it (counted since the process
\* started, which is when the roster was seeded).
C14_LengthBound ==
  \A n \in DOMAIN ListActivities :
    Len(ListActivities[n].participants) <=
      Len(SeedActivities[n].participants) + net[n]

\* one activity is back at its seed length after a signup and an unregister,
\* another is two signups above it
C14_Witness ==
  /\ net["Chess Club"] = 0
  /\ ListActivities["Chess Club"].participants =
       <<"daniel@mergington.edu", "zoe@mergington.edu">>
  /\ net["Programming Class"] = 2
  /\ Len(ListActivities["Programming Class"].participants) = 4

\* how often x occurs in s
Occurrences(s, x) == Cardinality({i \in 1..Len(s) : s[i] = x})

\* s without the entries equal to x
Without(s, x) == SelectSeq(s, LAMBDA y : y # x)

\* C15: signup, unregister, signup of one email for one activity of the
\* roster, whether or not the email was a participant before, end with the
\* email among the participants exactly once, at the end, behind the
\* participants that were there before, who keep their order; the first
\* signup is refused exactly when the email was a participant already, the
\* other two requests succeed.
C15_SignupUnregisterSignup ==
  (client.pc = "done" /\ client.name \in DOMAIN activities) =>
    LET ps == activities[client.name].participants
    IN  /\ Occurrences(ps, client.email) = 1
        /\ ps[Len(ps)] = client.email
        /\ ps = Without(client.base, client.email) \o <<client.email>>
        /\ client.answers =
             <<IF Contains(client.base, client.email) THEN 400 ELSE 200, 200, 200>>

\* the caller is through with an email that had been first in the list
C15_Witness ==
  /\ client.pc = "done" /\ client.name = "Chess Club"
  /\ client.email = "michael@mergington.edu"
  /\ client.base = <<"michael@mergington.edu", "daniel@mergington.edu", "zoe@mergington.edu">>
  /\ activities["Chess Club"].participants =
       <<"daniel@mergington.edu", "zoe@mergington.edu", "michael@mergington.edu">>

\* C16: a submit whose author or text is the empty string is answered with
\* a validation error (422) and stores nothing.
C16_EmptyFieldsRejected ==
  [][\A payload \in Payloads :
       (/\ running /\ last'.op = "submit"
        /\ ValidTestimonialIn(payload)
        /\ last'.author = payload.author[1] /\ last'.text = payload.text[1]
        /\ (payload.author[1] = "" \/ payload.text[1] = "")) =>
         (last'.status = 422 /\ rows' = rows)]_vars

\* thread w does its append / its remove in this step
AppendStep(w) == inflight[w].pc = "append" /\ inflight'[w].pc = "idle"

RemoveStep(w) == inflight[w].pc = "remove" /\ inflight'[w].pc = "idle"

\* C17: with the check and the mutation as separate steps and no lock, a
\* signup that has passed its check appends its email whatever has happened
\* since, so that the second of two signups that both passed the check puts
\* the email in the list a second time; an unregister that has passed its
\* check removes one entry when there still is one and fails (500, list
\* unchanged) when another unregister has taken it in between.
C17_RosterRace ==
  [][\A w \in Workers :
       LET r == inflight[w]
           old == activities[r.name].participants
           new == activities'[r.name].participants
       IN  /\ AppendStep(w) =>
                /\ last'.status = 200
                /\ new = Append(old, r.email)
                /\ Occurrences(new, r.email) = Occurrences(old, r.email) + 1
           /\ RemoveStep(w) =>
                IF Contains(old, r.email)
                  THEN /\ last'.status = 200
                       /\ Occurrences(new, r.email) = Occurrences(old, r.email) - 1
                  ELSE /\ last'.status = 500
                       /\ activities' = activities]_vars

\* an email is in a list twice, and the second of two unregisters has failed
C17_Witness ==
  /\ \E n \in DOMAIN activities, e \in Emails :
       Occurrences(activities[n].participants, e) = 2
  /\ last.op = "unregister" /\ last.status = 500

\* C18: when two toggles of one id that ran in parallel have both been
\* answered, the stored flag is what it was before the two and the two
\* answers carry opposite values of approved.
C18_ToggleAtomic ==
  (\A w \in Workers : inflight[w].pc = "done" /\ inflight[w].status = 200) =>
    /\ \A w \in Workers : FetchApproved(rows, inflight[w].id) = inflight[w].before
    /\ inflight["w1"].approved # inflight["w2"].approved

====
